---- MODULE Spec2Model ----
(***************************************************************************)
(* Model of the swipe detector of src/motion_detection.py                  *)
(* (class MotionDetector): the trajectory buffer, the displacement         *)
(* threshold, the READY/COOLDOWN debounce and the handedness correction;   *)
(* and of the application around it (src/main.py, src/ppt_controller.py):  *)
(* the pipeline loop, the dispatch of slide commands and the buttons.      *)
(*                                                                         *)
(* Time is counted in integer ticks; TicksPerTenth ticks make 0.1 s, so    *)
(* that the rounding of get_status to one decimal is a real conversion.    *)
(* Coordinates are small integers around the threshold.  Python's None is  *)
(* the string "None".                                                      *)
(***************************************************************************)
EXTENDS Integers, Sequences, FiniteSets, TLC

(***************************************************************************)
(* Configuration of the detector (constructor arguments, scaled down) and  *)
(* the bounds of the exploration.                                          *)
(***************************************************************************)
min_distance == 2
debounce_time == 2
max_trajectory_length == 5
MaxTime == 4
MaxThreads == 2
MaxFed == 2
RecoverSleep == 1
TicksPerTenth == 2

\* the fixed minimum number of samples of detect_swipe
MinSamples == 5

VARIABLES
    trajectory,         \* self.trajectory: sequence of x values, oldest first
    state,              \* self.state: "READY" or "COOLDOWN"
    last_trigger_time,  \* self.last_trigger_time
    now,                \* the value time.time() returns
    op,                 \* the last call made: "init", "detect_swipe", "get_status"
    current_x,          \* argument of the last detect_swipe call
    is_right_hand,      \* argument of the last detect_swipe call
    ret,                \* result of the last detect_swipe call
    status,             \* result of the last call when it was get_status
    fed,                \* samples fed since construction or the last accepted
                        \* trigger, counted up to max_trajectory_length + 1
    fired,              \* clock values at which a call returned a direction
    probe,              \* what the last detect_swipe call computed on its way
    twin,               \* a second detector, fed the same samples (SpecPair)
    ret2,               \* result of the twin's last detect_swipe call
    differed,           \* the twin was once called with the other handedness
    is_running,         \* core.is_running of src/main.py
    pc,                 \* where each pipeline thread is in run_pipeline
    start_disabled,     \* start_btn.disabled
    stop_disabled,      \* stop_btn.disabled
    frame,              \* what the last iteration of the pipeline loop did
    issued              \* clock values at which a slide command was called

\* the second detector and its bookkeeping
twinVars == <<twin, ret2, differed>>

\* the application around the detector: GestureSlideCore and the two buttons
appVars == <<is_running, pc, start_disabled, stop_disabled, frame, issued>>

vars == <<trajectory, state, last_trigger_time, now, op, current_x,
          is_right_hand, ret, status, fed, fired, probe, twinVars, appVars>>

\* the coordinates fed: displacements of 0, 1, min_distance - 1 and
\* min_distance between any two of them
Xs == {0, min_distance - 1, min_distance}

\* by how much the clock can move between the two reads of one call
Drifts == {0, 1}
Directions == {"left", "right"}

Abs(n) == IF n < 0 THEN -n ELSE n

Max0(n) == IF 0 < n THEN n ELSE 0

\* the detector object as a record
Detector(t, s, l) == [trajectory |-> t, state |-> s, last_trigger_time |-> l]

\* MotionDetector.__init__
NewDetector == Detector(<<>>, "READY", 0)

\* mutant of deque_append: a full buffer gives up its newest value
deque_append_drops_newest(q, x) ==
    IF max_trajectory_length = 0 THEN <<>>
    ELSE IF Len(q) < max_trajectory_length THEN Append(q, x)
    ELSE Append(SubSeq(q, 1, Len(q) - 1), x)

\* deque(maxlen = max_trajectory_length).append
deque_append(q, x) ==
    IF max_trajectory_length = 0 THEN <<>>
    ELSE IF Len(q) < max_trajectory_length THEN Append(q, x)
    ELSE Append(Tail(q), x)

\* mutant of too_few_samples: four samples are taken to be enough
too_few_samples_four(q) == Len(q) < MinSamples - 1

\* len(self.trajectory) < 5
too_few_samples(q) == Len(q) < MinSamples

\* mutant of delta: the operands are swapped
delta_reversed(q) == q[1] - q[Len(q)]

\* delta_x = x_end - x_start
delta(q) == q[Len(q)] - q[1]

\* mutant of below_threshold: the threshold is one too low
below_threshold_short(delta_x) == Abs(delta_x) < min_distance - 1

\* mutant of below_threshold: a displacement must exceed the threshold
below_threshold_inclusive(delta_x) == Abs(delta_x) <= min_distance

\* abs(delta_x) < self.min_distance
below_threshold(delta_x) == Abs(delta_x) < min_distance

\* mutant of can_trigger: the cooldown ends at debounce_time, not after it
can_trigger_at_boundary(self, t) ==
    IF self.state = "READY" THEN [ok |-> TRUE, self |-> self]
    ELSE IF t - self.last_trigger_time >= debounce_time
         THEN [ok |-> TRUE, self |-> [self EXCEPT !.state = "READY"]]
         ELSE [ok |-> FALSE, self |-> self]

\* mutant of can_trigger: the elapsed time is never looked at
can_trigger_stuck(self, t) ==
    IF self.state = "READY" THEN [ok |-> TRUE, self |-> self]
    ELSE [ok |-> FALSE, self |-> self]

\* mutant of can_trigger: READY is written before the elapsed time is tested
can_trigger_eager_ready(self, t) ==
    IF self.state = "READY" THEN [ok |-> TRUE, self |-> self]
    ELSE [ok |-> t - self.last_trigger_time > debounce_time,
          self |-> [self EXCEPT !.state = "READY"]]

\* mutant of can_trigger: an elapsed cooldown re-arms the detector, and only
\* the call after that may fire
can_trigger_rearm_only(self, t) ==
    IF self.state = "READY" THEN [ok |-> TRUE, self |-> self]
    ELSE IF t - self.last_trigger_time > debounce_time
         THEN [ok |-> FALSE, self |-> [self EXCEPT !.state = "READY"]]
         ELSE [ok |-> FALSE, self |-> self]

\* MotionDetector._can_trigger at clock value t: the answer and the detector
\* after the call (the lazy COOLDOWN -> READY write)
can_trigger(self, t) ==
    IF self.state = "READY" THEN [ok |-> TRUE, self |-> self]
    ELSE IF t - self.last_trigger_time > debounce_time
         THEN [ok |-> TRUE, self |-> [self EXCEPT !.state = "READY"]]
         ELSE [ok |-> FALSE, self |-> self]

\* mutant of trigger: the time is recorded, the state is not
trigger_time_only(self, t) == [self EXCEPT !.last_trigger_time = t]

\* MotionDetector._trigger at clock value t
trigger(self, t) ==
    [self EXCEPT !.state = "COOLDOWN", !.last_trigger_time = t]

\* mutant of clear: the trajectory is kept
clear_skipped(self) == self

\* self.trajectory.clear()
clear(self) == [self EXCEPT !.trajectory = <<>>]

\* mutant of gesture: no inversion for the left hand
gesture_unmirrored(delta_x, rh) ==
    IF delta_x > 0 THEN "right" ELSE "left"

\* the direction of an accepted swipe, with the left-hand inversion
gesture(delta_x, rh) ==
    LET raw == IF delta_x > 0 THEN "right" ELSE "left"
    IN  IF ~rh THEN (IF raw = "right" THEN "left" ELSE "right") ELSE raw

\* mutant of detect_swipe: the left hand is corrected by mirroring its samples
\* as they arrive, not by inverting the result
detect_swipe_mirrored(self, x, rh, t_check, t_trigger) ==
    LET xm == IF rh THEN x ELSE min_distance - x
        appended == [self EXCEPT !.trajectory = deque_append(self.trajectory, xm)]
    IN  IF too_few_samples(appended.trajectory)
        THEN [self |-> appended, ret |-> "None"]
        ELSE LET delta_x == delta(appended.trajectory)
             IN  IF below_threshold(delta_x)
                 THEN [self |-> appended, ret |-> "None"]
                 ELSE LET ct == can_trigger(appended, t_check)
                      IN  IF ~ct.ok
                          THEN [self |-> ct.self, ret |-> "None"]
                          ELSE [self |-> clear(trigger(ct.self, t_trigger)),
                                ret |-> gesture(delta_x, TRUE)]

\* MotionDetector.detect_swipe: t_check is the clock read by _can_trigger,
\* t_trigger the later clock read by _trigger
detect_swipe(self, x, rh, t_check, t_trigger) ==
    LET appended == [self EXCEPT !.trajectory = deque_append(self.trajectory, x)]
    IN  IF too_few_samples(appended.trajectory)
        THEN [self |-> appended, ret |-> "None"]
        ELSE LET delta_x == delta(appended.trajectory)
             IN  IF below_threshold(delta_x)
                 THEN [self |-> appended, ret |-> "None"]
                 ELSE LET ct == can_trigger(appended, t_check)
                      IN  IF ~ct.ok
                          THEN [self |-> ct.self, ret |-> "None"]
                          ELSE [self |-> clear(trigger(ct.self, t_trigger)),
                                ret |-> gesture(delta_x, rh)]

\* round(remain, 1): ticks to tenths of a second, to the nearest tenth;
\* at a tie the binary value of the float decides, so either neighbour
round1(r, up) ==
    LET q == r \div TicksPerTenth
        m == r % TicksPerTenth
    IN  IF 2 * m < TicksPerTenth THEN q
        ELSE IF 2 * m > TicksPerTenth THEN q + 1
        ELSE IF up THEN q + 1 ELSE q

\* mutant of get_status: the query does the lazy COOLDOWN -> READY write
get_status_rearms(self, t, up) ==
    IF self.state = "READY"
    THEN [self |-> self, text |-> "READY", remain |-> 0]
    ELSE LET remain == debounce_time - (t - self.last_trigger_time)
         IN  [self |-> IF remain < 0 THEN [self EXCEPT !.state = "READY"]
                       ELSE self,
              text |-> "Ready in",
              remain |-> Max0(round1(remain, up))]

\* MotionDetector.get_status at clock value t: the text and the tenths shown
\* together with the detector after the call
get_status(self, t, up) ==
    IF self.state = "READY"
    THEN [self |-> self, text |-> "READY", remain |-> 0]
    ELSE LET remain == debounce_time - (t - self.last_trigger_time)
         IN  [self |-> self, text |-> "Ready in",
              remain |-> Max0(round1(remain, up))]

NoStatus == [text |-> "", remain |-> 0]

\* the samples a buffer q holds once x has arrived: the most recent
\* max_trajectory_length of them, in arrival order
Recent(q, x) ==
    LET s == q \o <<x>>
    IN  IF Len(s) > max_trajectory_length
        THEN SubSeq(s, Len(s) - max_trajectory_length + 1, Len(s))
        ELSE s

\* first-to-last displacement of a non-empty buffer
Displacement(q) == q[Len(q)] - q[1]

\* enough samples and enough displacement for a swipe
Qualifies(q) == Len(q) >= MinSamples /\ Abs(Displacement(q)) >= min_distance

\* the pipeline threads that on_start can create
Threads == 1..MaxThreads

\* no iteration of the pipeline loop yet
NoFrame == [kind |-> "none", calls |-> 0, dispatched |-> "none",
            key |-> "none", recovers |-> 0]

\* nothing computed: no detect_swipe call yet
NoProbe == [delta_x |-> 0, elapsed |-> -1, stale |-> FALSE]

Self == Detector(trajectory, state, last_trigger_time)

Init ==
    /\ trajectory = NewDetector.trajectory
    /\ state = NewDetector.state
    /\ last_trigger_time = NewDetector.last_trigger_time
    /\ now = 0
    /\ op = "init"
    /\ current_x = 0
    /\ is_right_hand = TRUE
    /\ ret = "None"
    /\ status = NoStatus
    /\ fed = 0
    /\ fired = <<>>
    /\ probe = NoProbe
    /\ twin = NewDetector
    /\ ret2 = "None"
    /\ differed = FALSE
    /\ is_running = FALSE
    /\ pc = [t \in Threads |-> "unborn"]
    /\ start_disabled = FALSE
    /\ stop_disabled = TRUE
    /\ frame = NoFrame
    /\ issued = <<>>

\* the clock advances between two calls
Tick ==
    /\ now < MaxTime
    /\ now' = now + 1
    /\ UNCHANGED <<trajectory, state, last_trigger_time, op, current_x,
                   is_right_hand, ret, status, fed, fired, probe, twinVars,
                   appVars>>

\* what a detect_swipe(x, ...) call that returns result computes on its way:
\* delta_x of line 55 (0 when line 51 returns before it), the elapsed time
\* of line 98 (-1 when the call does not get there), and whether it fired on
\* a displacement the last call, suppressed by the cooldown, had already
\* seen, its own sample repeating the previous one
Probe(x, result) ==
    LET q == Recent(trajectory, x)
    IN  [delta_x |-> IF Len(q) >= MinSamples THEN Displacement(q) ELSE 0,
         elapsed |-> IF Qualifies(q) /\ state = "COOLDOWN"
                     THEN now - last_trigger_time ELSE -1,
         stale   |-> /\ result \in Directions
                     /\ state = "COOLDOWN"
                     /\ Qualifies(trajectory)
                     /\ x = trajectory[Len(trajectory)]]

\* one call detect_swipe(x, rh) on the detector; in a call that reaches
\* _trigger the clock advances by d between the read of _can_trigger and
\* the read of _trigger
Swipe(x, rh, d) ==
    /\ now + d <= MaxTime
    /\ LET r == detect_swipe(Self, x, rh, now, now + d)
       IN  /\ d > 0 => r.ret # "None"
           /\ trajectory' = r.self.trajectory
           /\ state' = r.self.state
           /\ last_trigger_time' = r.self.last_trigger_time
           /\ ret' = r.ret
           /\ fed' = IF r.ret # "None" THEN 0
                     ELSE IF fed <= max_trajectory_length THEN fed + 1
                     ELSE fed
           /\ fired' = IF r.ret # "None" THEN Append(fired, now + d)
                       ELSE fired
           /\ probe' = Probe(x, r.ret)
    /\ op' = "detect_swipe"
    /\ current_x' = x
    /\ is_right_hand' = rh
    /\ status' = NoStatus

\* the call, when nothing else moves the clock before the next step
Call(x, rh, d) ==
    /\ Swipe(x, rh, d)
    /\ now' = now + d

DetectSwipe(x, rh, d) ==
    /\ Call(x, rh, d)
    /\ UNCHANGED <<twinVars, appVars>>

\* one call get_status()
GetStatus(up) ==
    /\ LET r == get_status(Self, now, up)
       IN  /\ trajectory' = r.self.trajectory
           /\ state' = r.self.state
           /\ last_trigger_time' = r.self.last_trigger_time
           /\ status' = [text |-> r.text, remain |-> r.remain]
    /\ op' = "get_status"
    /\ UNCHANGED <<now, current_x, is_right_hand, ret, fed, fired, probe,
                   twinVars, appVars>>

Next ==
    \/ Tick
    \/ \E x \in Xs, rh \in BOOLEAN, d \in Drifts : DetectSwipe(x, rh, d)
    \/ \E up \in BOOLEAN : GetStatus(up)

Spec == Init /\ [][Next]_vars

(***************************************************************************)
(* Two detectors of the same configuration fed the same x sequence at the  *)
(* same clock values: the detector proper with is_right_hand = True on     *)
(* every call, the twin with is_right_hand = False on every call.          *)
(***************************************************************************)
DetectSwipePair(x, d) ==
    /\ Call(x, TRUE, d)
    /\ LET r2 == detect_swipe(twin, x, FALSE, now, now + d)
       IN  /\ twin' = r2.self
           /\ ret2' = r2.ret
    /\ UNCHANGED <<differed, appVars>>

NextPair ==
    \/ Tick
    \/ \E x \in Xs, d \in Drifts : DetectSwipePair(x, d)

SpecPair == Init /\ [][NextPair]_vars

(***************************************************************************)
(* Two runs of the same x sequence at the same clock values that agree on  *)
(* is_right_hand at every call that returns a direction and are free to    *)
(* differ on it at every other call.                                       *)
(***************************************************************************)
DetectSwipeHands(x, rh, rh2, d) ==
    /\ Call(x, rh, d)
    /\ LET r2 == detect_swipe(twin, x, rh2, now, now + d)
       IN  /\ (ret' # "None" \/ r2.ret # "None") => rh2 = rh
           /\ twin' = r2.self
           /\ ret2' = r2.ret
    /\ differed' = (differed \/ rh2 # rh)
    /\ UNCHANGED appVars

NextHands ==
    \/ Tick
    \/ \E x \in Xs, rh \in BOOLEAN, rh2 \in BOOLEAN, d \in Drifts :
          DetectSwipeHands(x, rh, rh2, d)

SpecHands == Init /\ [][NextHands]_vars

(***************************************************************************)
(* The application of src/main.py: the pipeline loop of run_pipeline, the  *)
(* command dispatch to PPTController and the Start and Stop buttons.       *)
(* pc of a thread: "unborn" (not created), "open" (at line 33), "loop" (at *)
(* the test of line 41), "body" (inside the loop), "exit" (at line 62),    *)
(* "done" (returned), "crashed" (left by an exception).                    *)
(***************************************************************************)
\* PPTController.recover: the time it sleeps
recover == RecoverSleep

\* nothing was called
NotCalled == [key |-> "none", recovers |-> 0, slept |-> 0, raised |-> FALSE]

\* mutant of press_or_recover: the exception of pyautogui.press is not caught
press_or_raise(key, fail) ==
    IF fail THEN [NotCalled EXCEPT !.raised = TRUE]
    ELSE [NotCalled EXCEPT !.key = key]

\* the try/except of next_slide and prev_slide: the key injected ("none"
\* when pyautogui.press raised), the calls of recover, the time slept and
\* whether an exception leaves the method
press_or_recover(key, fail) ==
    IF fail THEN [NotCalled EXCEPT !.recovers = 1, !.slept = recover]
    ELSE [NotCalled EXCEPT !.key = key]

\* PPTController.next_slide
next_slide(fail) == press_or_recover("right", fail)

\* PPTController.prev_slide
prev_slide(fail) == press_or_recover("left", fail)

\* mutant of dispatch: 'left' is not handled
dispatch_right_only(swipe_dir, fail) ==
    IF swipe_dir = "right"
    THEN [dispatched |-> "next_slide", done |-> next_slide(fail)]
    ELSE [dispatched |-> "none", done |-> NotCalled]

\* lines 53-56 of run_pipeline: the command called for a detector result
dispatch(swipe_dir, fail) ==
    IF swipe_dir = "right"
    THEN [dispatched |-> "next_slide", done |-> next_slide(fail)]
    ELSE IF swipe_dir = "left"
    THEN [dispatched |-> "prev_slide", done |-> prev_slide(fail)]
    ELSE [dispatched |-> "none", done |-> NotCalled]

\* what cap.read and get_index_finger_tip give for one frame
Frames ==
    {[kind |-> k, x |-> 0, rh |-> TRUE] : k \in {"read_failed", "no_hand"}}
    \cup {[kind |-> "point", x |-> x, rh |-> rh] :
                x \in {0, min_distance}, rh \in BOOLEAN}

\* the detector and the record of its last call
callVars == <<trajectory, state, last_trigger_time, op, current_x,
              is_right_hand, ret, status, fed, fired, probe>>

\* whether pyautogui.press can raise: only when a command is dispatched
Fails(swipe_dir) == IF swipe_dir = "None" THEN {FALSE} ELSE BOOLEAN

\* the clock ticks between the time.time() of _trigger and the call of the
\* command that the result leads to
Latencies(swipe_dir) == IF swipe_dir = "None" THEN {0} ELSE Drifts

\* what is left of an iteration once the detector has or has not been
\* called: the dispatch for result swipe_dir, the clock, the record of the
\* iteration and where thread t goes next.  d is the drift inside
\* detect_swipe; the command is called e ticks after the time.time() of
\* _trigger, and issued keeps the time of every call of a command
Dispatched(t, kind, calls, swipe_dir, d, quit) ==
    /\ \E fail \in Fails(swipe_dir), e \in Latencies(swipe_dir) :
         LET c == dispatch(swipe_dir, fail)
             called == now + d + e
         IN  /\ called + c.done.slept <= MaxTime
             /\ now' = called + c.done.slept
             /\ frame' = [kind |-> kind, calls |-> calls,
                          dispatched |-> c.dispatched,
                          key |-> c.done.key,
                          recovers |-> c.done.recovers]
             /\ issued' = IF c.dispatched # "none"
                          THEN Append(issued, called) ELSE issued
             /\ pc' = [pc EXCEPT ![t] = IF c.done.raised THEN "crashed"
                                        ELSE IF quit THEN "exit"
                                        ELSE "loop"]
    /\ UNCHANGED <<is_running, start_disabled, stop_disabled, twinVars>>

\* mutant of LoopBody: a frame without a hand is fed to the detector as x = 0
LoopBody_absent_is_zero(t, f, d, quit) ==
    IF f.kind = "read_failed"
    THEN /\ d = 0 /\ ~quit
         /\ UNCHANGED callVars
         /\ Dispatched(t, f.kind, 0, "None", d, quit)
    ELSE /\ Swipe(f.x, f.rh, d)
         /\ Dispatched(t, f.kind, 1, ret', d, quit)

\* lines 42-60: one pass through the body of the loop by thread t on frame f;
\* d is the clock drift inside detect_swipe, quit whether waitKey returns 'q'
LoopBody(t, f, d, quit) ==
    IF f.kind = "read_failed"
    THEN /\ d = 0 /\ ~quit
         /\ UNCHANGED callVars
         /\ Dispatched(t, f.kind, 0, "None", d, quit)
    ELSE IF f.kind = "no_hand"
    THEN /\ d = 0
         /\ UNCHANGED callVars
         /\ Dispatched(t, f.kind, 0, "None", d, quit)
    ELSE /\ Swipe(f.x, f.rh, d)
         /\ Dispatched(t, f.kind, 1, ret', d, quit)

\* on_start: a click on the enabled Start button
OnStart ==
    /\ ~start_disabled
    /\ IF is_running
       THEN UNCHANGED <<pc, start_disabled, stop_disabled>>
       ELSE /\ \E t \in Threads :
                 /\ pc[t] = "unborn"
                 /\ \A u \in Threads : u < t => pc[u] # "unborn"
                 /\ pc' = [pc EXCEPT ![t] = "open"]
            /\ start_disabled' = TRUE
            /\ stop_disabled' = FALSE
    /\ UNCHANGED <<callVars, now, twinVars, is_running, frame, issued>>

\* on_stop: a click on the enabled Stop button
OnStop ==
    /\ ~stop_disabled
    /\ is_running' = FALSE
    /\ start_disabled' = FALSE
    /\ stop_disabled' = TRUE
    /\ UNCHANGED <<callVars, now, twinVars, pc, frame, issued>>

\* lines 33-40 of run_pipeline: the camera opens or not; whether a second
\* open of the camera succeeds is up to the driver
Open(t, opened) ==
    /\ pc[t] = "open"
    /\ IF opened
       THEN /\ is_running' = TRUE
            /\ pc' = [pc EXCEPT ![t] = "loop"]
       ELSE /\ pc' = [pc EXCEPT ![t] = "done"]
            /\ UNCHANGED is_running
    /\ UNCHANGED <<callVars, now, twinVars, start_disabled, stop_disabled,
                   frame, issued>>

\* lines 62-66 of run_pipeline
Exit(t) ==
    /\ pc[t] = "exit"
    /\ is_running' = FALSE
    /\ pc' = [pc EXCEPT ![t] = "done"]
    /\ UNCHANGED <<callVars, now, twinVars, start_disabled, stop_disabled,
                   frame, issued>>

\* one iteration of the loop by a thread that nothing interleaves with: the
\* test of line 41 found is_running set, then the body
Iterate(t, f, d, quit) ==
    /\ pc[t] = "loop"
    /\ is_running
    /\ LoopBody(t, f, d, quit)

(***************************************************************************)
(* One run of the pipeline while it lasts: Start is clicked and the thread *)
(* loops over the frames; neither Stop nor 'q' is pressed (the ways out of *)
(* the loop are part of SpecThreads).                                      *)
(***************************************************************************)
NextPipeline ==
    \/ Tick
    \/ OnStart
    \/ \E t \in Threads, opened \in BOOLEAN : Open(t, opened)
    \/ \E t \in Threads, f \in Frames, d \in Drifts : Iterate(t, f, d, FALSE)

SpecPipeline == Init /\ [][NextPipeline]_vars

(***************************************************************************)
(* The buttons and the pipeline threads, statement by statement: the test  *)
(* of line 41 and the body of the loop are separate steps of a thread, and *)
(* clicks and other threads run between them.  Nothing joins or locks:     *)
(* on_stop only clears is_running and enables Start again.  A call of      *)
(* detect_swipe is taken as one step.                                      *)
(***************************************************************************)
\* line 41: the loop condition, read by thread t
Test(t) ==
    /\ pc[t] = "loop"
    /\ pc' = [pc EXCEPT ![t] = IF is_running THEN "body" ELSE "exit"]
    /\ UNCHANGED <<callVars, now, twinVars, is_running, start_disabled,
                   stop_disabled, frame, issued>>

\* lines 42-60: the body of the loop, run by a thread that passed the test
Body(t, f, d, quit) ==
    /\ pc[t] = "body"
    /\ fed < MaxFed
    /\ LoopBody(t, f, d, quit)

\* the threads inside the loop of run_pipeline
InLoop == {t \in Threads : pc[t] \in {"loop", "body"}}

NextThreads ==
    \/ OnStart
    \/ OnStop
    \/ \E t \in Threads, opened \in BOOLEAN : Open(t, opened)
    \/ \E t \in Threads : Test(t)
    \/ \E t \in Threads, f \in Frames, d \in Drifts, quit \in BOOLEAN :
            Body(t, f, d, quit)
    \/ \E t \in Threads : Exit(t)

SpecThreads == Init /\ [][NextThreads]_vars

(***************************************************************************)
(* Vocabulary of the properties, stated apart from the detector's own code *)
(***************************************************************************)
\* a step that is one detect_swipe call
IsDetectSwipe ==
    /\ now' - now \in Drifts
    /\ DetectSwipe(current_x', is_right_hand', now' - now)

\* a step that is one get_status call
IsGetStatus == \E up \in BOOLEAN : GetStatus(up)

\* the buffer the call of this step evaluates
Evaluated == Recent(trajectory, current_x')

\* C1 (Debounce): the clock values at which calls returned a direction are
\* pairwise more than debounce_time apart, a call that returns a direction
\* after an earlier one reads a clock more than debounce_time past it, and a
\* call with a qualifying buffer made in COOLDOWN at most debounce_time after
\* last_trigger_time returns None.
C1_Debounce ==
    /\ [](\A i \in 1..Len(fired) : \A j \in 1..Len(fired) :
            i < j => fired[j] - fired[i] > debounce_time)
    /\ [][IsDetectSwipe =>
            /\ (ret' \in Directions /\ fired # <<>>)
                  => now - fired[Len(fired)] > debounce_time
            /\ (/\ Qualifies(Evaluated)
                /\ state = "COOLDOWN"
                /\ now - last_trigger_time <= debounce_time)
                  => ret' = "None"]_vars

\* C1 witness: two directions have been returned and a later qualifying call
\* was suppressed inside the cooldown
C1_Witness ==
    /\ Len(fired) >= 2
    /\ op = "detect_swipe" /\ ret = "None"
    /\ Qualifies(trajectory)
    /\ state = "COOLDOWN" /\ now - last_trigger_time <= debounce_time

\* C2 (Threshold): a detect_swipe call whose buffer, after the new sample is
\* appended, has a first-to-last displacement of magnitude strictly less
\* than min_distance returns None.
C2_Threshold ==
    [][IsDetectSwipe =>
         (Abs(Displacement(Evaluated)) < min_distance => ret' = "None")]_vars

\* C2 witness: a call with enough samples in state READY, and one in COOLDOWN
\* past the debounce time, returned None only because the displacement, not
\* zero, is below the threshold
C2_Witness ==
    /\ op = "detect_swipe" /\ ret = "None"
    /\ Len(trajectory) >= MinSamples
    /\ Displacement(trajectory) # 0
    /\ Abs(Displacement(trajectory)) < min_distance
    /\ state = "COOLDOWN" /\ now - last_trigger_time > debounce_time

\* C3 (Minimum samples): a detect_swipe call returns None whenever fewer
\* than 5 observations, the current one included, were fed since
\* construction or since the last accepted trigger.
C3_MinSamples ==
    [][IsDetectSwipe => (fed + 1 < MinSamples => ret' = "None")]_vars

\* C3 witness: the fourth observation after a trigger and after the cooldown,
\* with a displacement that reaches the threshold, returned None
C3_Witness ==
    /\ op = "detect_swipe" /\ ret = "None"
    /\ fed = MinSamples - 1
    /\ Abs(Displacement(trajectory)) >= min_distance
    /\ fired # <<>> /\ now - last_trigger_time > debounce_time

\* C4 (Direction correction): fed the same samples at the same clock values,
\* the right-hand detector and the left-hand detector return None on the
\* same calls and opposite directions on the others.
C4_OppositeHands ==
    \/ ret = "None" /\ ret2 = "None"
    \/ ret = "right" /\ ret2 = "left"
    \/ ret = "left" /\ ret2 = "right"

\* C4 witness: both detectors returned a direction for the second time
C4_Witness ==
    /\ op = "detect_swipe"
    /\ ret = "left" /\ ret2 = "right"
    /\ Len(fired) >= 2

\* C5 (Buffer reset): right after a detect_swipe call that returns a
\* direction the trajectory is empty, and the next detect_swipe call returns
\* None whatever its arguments and the clock are.
C5_BufferReset ==
    [][IsDetectSwipe =>
         /\ ret' \in Directions => trajectory' = <<>>
         /\ ret \in Directions => ret' = "None"]_vars

\* C5 witness: the call right after a trigger, made after the cooldown has
\* elapsed, returned None
C5_Witness ==
    /\ op = "detect_swipe" /\ ret = "None"
    /\ fired # <<>> /\ fed = 1
    /\ now - last_trigger_time > debounce_time

\* C6 (Trajectory capacity): the trajectory never holds more than
\* max_trajectory_length values, and a sample appended to a full trajectory
\* removes the oldest value: after a call that does not clear it, the
\* trajectory is the most recent samples in arrival order.
C6_Capacity ==
    /\ [](Len(trajectory) <= max_trajectory_length)
    /\ [][IsDetectSwipe =>
            /\ ret' = "None" => trajectory' = Evaluated
            /\ (ret' = "None" /\ Len(trajectory) = max_trajectory_length
                  /\ max_trajectory_length > 0)
                  => trajectory' = Tail(trajectory) \o <<current_x'>>]_vars

\* C6 witness: more samples than the capacity were fed since the last clear
\* and the trajectory is full, its oldest value differing from the newest
C6_Witness ==
    /\ op = "detect_swipe"
    /\ fed > max_trajectory_length
    /\ Len(trajectory) = max_trajectory_length
    /\ trajectory[1] # trajectory[Len(trajectory)]

\* C7 (Result of an accepted trigger): before any trigger, a call returns
\* None while its buffer has fewer than 5 samples or a displacement below
\* min_distance, and the first call whose buffer qualifies returns 'right'
\* exactly when (delta > 0) equals is_right_hand, 'left' otherwise.
C7_FirstTrigger ==
    [][(IsDetectSwipe /\ fired = <<>>) =>
         IF Qualifies(Evaluated)
         THEN ret' = (IF (Displacement(Evaluated) > 0) = is_right_hand'
                      THEN "right" ELSE "left")
         ELSE ret' = "None"]_vars

\* C7 witness: the first trigger of a detector, a left hand moving towards
\* smaller x, returned 'right'
C7_Witness ==
    /\ op = "detect_swipe"
    /\ Len(fired) = 1
    /\ ret = "right" /\ ~is_right_hand

\* C8 (Re-arming): a detect_swipe call made more than debounce_time after
\* last_trigger_time with a qualifying buffer returns a direction, sets state
\* to COOLDOWN, last_trigger_time to the current time and clears the
\* trajectory.
C8_Rearm ==
    [][IsDetectSwipe =>
         ((now - last_trigger_time > debounce_time /\ Qualifies(Evaluated))
            => /\ ret' \in Directions
               /\ state' = "COOLDOWN"
               /\ last_trigger_time' = now'
               /\ trajectory' = <<>>)]_vars

\* C8 witness: a second trigger was accepted, by a call that found the
\* detector in COOLDOWN
C8_Witness ==
    /\ op = "detect_swipe" /\ ret \in Directions
    /\ Len(fired) = 2
    /\ state = "COOLDOWN" /\ last_trigger_time = fired[2]
    /\ trajectory = <<>>

\* C9 (Frame of a non-triggering call): a detect_swipe call that returns
\* None leaves state and last_trigger_time unchanged and changes the
\* trajectory only by appending the sample, evicting the oldest at capacity;
\* a non-empty trajectory becomes empty only in a call that returns a
\* direction.
C9_NoneFrame ==
    [][/\ (IsDetectSwipe /\ ret' = "None")
            => /\ state' = state
               /\ last_trigger_time' = last_trigger_time
               /\ trajectory' = Evaluated
       /\ (trajectory # <<>> /\ trajectory' = <<>>)
            => (IsDetectSwipe /\ ret' \in Directions)]_vars

\* C9 witness: a qualifying call was suppressed by the cooldown at capacity,
\* and the trajectory was kept
C9_Witness ==
    /\ op = "detect_swipe" /\ ret = "None"
    /\ state = "COOLDOWN" /\ now - last_trigger_time <= debounce_time
    /\ fed > max_trajectory_length
    /\ Qualifies(trajectory)

\* C10 (Status query purity): get_status changes neither trajectory, state
\* nor last_trigger_time; it reports 'READY' when state is READY and
\* otherwise a remaining time that is never negative and lies within half a
\* tenth of a second of max(0, debounce_time - (now - last_trigger_time)).
C10_StatusPure ==
    [][IsGetStatus =>
         /\ UNCHANGED <<trajectory, state, last_trigger_time>>
         /\ state = "READY" => status'.text = "READY"
         /\ state # "READY" =>
              /\ status'.text = "Ready in"
              /\ status'.remain >= 0
              /\ 2 * Abs(status'.remain * TicksPerTenth
                         - Max0(debounce_time - (now - last_trigger_time)))
                   <= TicksPerTenth]_vars

\* C10 witness: the status was asked for after the cooldown had elapsed,
\* where the raw remainder is negative, and 0 was reported
C10_Witness ==
    /\ op = "get_status"
    /\ status.text = "Ready in" /\ status.remain = 0
    /\ now - last_trigger_time > debounce_time

\* C11 (Stale displacement fires at cooldown expiry): when the samples fed
\* during the cooldown left a qualifying buffer behind a suppressed call,
\* the first call after the cooldown has elapsed returns a direction
\* although its sample repeats the previous one, provided the buffer it
\* evaluates still qualifies; and such a call is reachable (the witness).
C11_StaleFires ==
    [][IsDetectSwipe =>
         ((/\ state = "COOLDOWN"
           /\ Qualifies(trajectory)
           /\ now - last_trigger_time > debounce_time
           /\ current_x' = trajectory[Len(trajectory)]
           /\ Qualifies(Evaluated))
            => ret' \in Directions)]_vars

\* C11 witness: a call fired right after the cooldown on a displacement
\* accumulated during it, with a sample equal to the previous one
C11_Witness ==
    /\ op = "detect_swipe" /\ ret \in Directions
    /\ probe.stale
    /\ probe.elapsed > debounce_time

\* C12 (Threshold boundary): with at least 5 samples, state READY and a
\* displacement of magnitude exactly min_distance, the call returns a
\* direction.
C12_ThresholdBoundary ==
    [][IsDetectSwipe =>
         ((/\ Len(Evaluated) >= MinSamples
           /\ state = "READY"
           /\ Abs(Displacement(Evaluated)) = min_distance)
            => ret' \in Directions)]_vars

\* C12 witness: a READY detector fired on a displacement of exactly
\* min_distance
C12_Witness ==
    /\ op = "detect_swipe" /\ ret \in Directions
    /\ Len(fired) = 1
    /\ probe.elapsed = -1
    /\ Abs(probe.delta_x) = min_distance

\* C13 (Debounce boundary): a qualifying call made in COOLDOWN exactly
\* debounce_time after last_trigger_time returns None, and a qualifying call
\* made in COOLDOWN returns a direction only when strictly more than
\* debounce_time has elapsed.
C13_DebounceBoundary ==
    [][IsDetectSwipe =>
         ((Qualifies(Evaluated) /\ state = "COOLDOWN")
            => /\ now - last_trigger_time = debounce_time => ret' = "None"
               /\ ret' \in Directions
                    => now - last_trigger_time > debounce_time)]_vars

\* C13 witness: a qualifying call was suppressed exactly debounce_time after
\* the trigger
C13_Witness ==
    /\ op = "detect_swipe" /\ ret = "None"
    /\ Qualifies(trajectory)
    /\ probe.elapsed = debounce_time

\* C14 (READY is never observable again): once a call has returned a
\* direction, state is COOLDOWN after every call, and get_status does not
\* report 'READY'.
C14_NeverReadyAgain ==
    fired # <<>> =>
        /\ state = "COOLDOWN"
        /\ op = "get_status" => status.text = "Ready in"

\* C14 witness: long after the cooldown, and after a further detect_swipe
\* call, get_status still reports a remaining time
C14_Witness ==
    /\ op = "get_status" /\ status.text = "Ready in"
    /\ fired # <<>> /\ fed >= 1
    /\ now - last_trigger_time > debounce_time

\* C18 (Handedness is used only at the triggering call): two runs of the
\* same samples and clock that agree on is_right_hand at every call that
\* returns a direction have the same detector state and the same result
\* after every call, however they differ on is_right_hand elsewhere.
C18_HandednessOnlyAtTrigger ==
    /\ twin = Self
    /\ ret2 = ret

\* C18 witness: the runs differed on is_right_hand at a call that returned
\* None, and the first direction returned since is the same in both
C18_Witness ==
    /\ differed
    /\ op = "detect_swipe"
    /\ Len(fired) = 1
    /\ ret \in Directions /\ ret2 = ret

\* a step is one iteration of the pipeline loop, on the frame that the
\* record of the iteration and of the detector's last call describe
LastFrame ==
    IF frame.kind = "point"
    THEN [kind |-> "point", x |-> current_x, rh |-> is_right_hand]
    ELSE [kind |-> frame.kind, x |-> 0, rh |-> TRUE]

IsIterate ==
    /\ frame'.kind \in {"read_failed", "no_hand", "point"}
    /\ \E t \in Threads, d \in Drifts : Iterate(t, LastFrame', d, FALSE)

\* the last iteration called a command and the key press raised
Failed == frame.dispatched # "none" /\ frame.key = "none"

\* the command that the result of the last iteration's call stands for
Command(swipe_dir) ==
    IF swipe_dir = "right" THEN "next_slide"
    ELSE IF swipe_dir = "left" THEN "prev_slide"
    ELSE "none"

\* C15: No-observation frames.  An iteration of the pipeline loop calls
\* detect_swipe at most once, and only on a frame in which the recognizer
\* returned a point; an iteration on a frame with no detected hand or on a
\* failed camera read leaves trajectory, state and last_trigger_time as
\* they were and calls no command.
C15_NoObservationFrames ==
    [][IsIterate =>
         /\ frame'.calls <= 1
         /\ frame'.calls = 1 <=> frame'.kind = "point"
         /\ frame'.kind \in {"no_hand", "read_failed"} =>
              /\ UNCHANGED <<trajectory, state, last_trigger_time>>
              /\ frame'.dispatched = "none"
              /\ issued' = issued]_vars

\* a frame without a hand has gone by while the buffer was such that a
\* sample x = 0 would have made the detector fire
C15_Witness ==
    /\ frame.kind = "no_hand"
    /\ Qualifies(Recent(trajectory, 0))
    /\ state = "READY"
    /\ \E t \in Threads : pc[t] = "loop"

\* C16 as stated: each result 'right' causes one next_slide call, each
\* 'left' one prev_slide call, None no call; the commands are as many as
\* the non-None results and no two commands are called within debounce_time
\* of each other.
C16_CommandsDebounced ==
    /\ frame.dispatched = (IF frame.calls = 1 THEN Command(ret) ELSE "none")
    /\ Len(issued) = Len(fired)
    /\ \A i, j \in 1..Len(issued) :
         i < j => issued[j] - issued[i] > debounce_time

\* C16, amended: each result 'right' causes one next_slide call, each
\* 'left' one prev_slide call, None no call, and a call that does not raise
\* presses the key of its direction; the commands are as many as the
\* non-None results; the triggers behind two commands are more than
\* debounce_time apart, and each command is called no earlier than its own
\* trigger and more than debounce_time after every earlier trigger.
C16_Dispatch ==
    /\ frame.dispatched = (IF frame.calls = 1 THEN Command(ret) ELSE "none")
    /\ frame.key \in {"none"} \cup ({ret} \cap Directions)
    /\ Len(issued) = Len(fired)
    /\ \A j \in 1..Len(issued) :
         /\ fired[j] <= issued[j]
         /\ \A i \in 1..(j - 1) :
              /\ fired[j] - fired[i] > debounce_time
              /\ issued[j] - fired[i] > debounce_time

\* two commands were called, the second exactly debounce_time after the
\* first, and the last iteration called prev_slide
C16_Witness ==
    /\ Len(issued) = 2
    /\ issued[2] - issued[1] <= debounce_time
    /\ frame.dispatched = "prev_slide"
    /\ ret = "left"

\* C19: Injection failure is contained.  When the key press raises in
\* next_slide or prev_slide, recover is called once and has slept, no key
\* is pressed, no thread is left by the exception and the thread is back at
\* the head of the loop with is_running set; the command is not called a
\* second time, and the detector is in the COOLDOWN of that swipe.
C19_FailureContained ==
    /\ \A t \in Threads : pc[t] # "crashed"
    /\ Failed =>
         /\ frame.recovers = 1
         /\ \E t \in Threads : pc[t] = "loop"
         /\ is_running
         /\ Len(issued) = Len(fired)
         /\ now >= issued[Len(issued)] + recover
         /\ state = "COOLDOWN"
         /\ last_trigger_time = fired[Len(fired)]
         /\ trajectory = <<>>

\* the key press of a command raised, and the cooldown of its swipe is
\* still running
C19_Witness ==
    /\ Failed
    /\ frame.dispatched = "next_slide"
    /\ frame.recovers = 1
    /\ state = "COOLDOWN"
    /\ now - last_trigger_time <= debounce_time

\* C17 as stated: under every interleaving of Start and Stop clicks with
\* the steps of the pipeline threads, at most one thread is inside the loop
\* of run_pipeline.
C17_SingleThread == Cardinality(InLoop) <= 1

TypeOK ==
    /\ trajectory \in Seq(Xs)
    /\ state \in {"READY", "COOLDOWN"}
    /\ last_trigger_time \in 0..MaxTime
    /\ now \in 0..MaxTime
    /\ op \in {"init", "detect_swipe", "get_status"}
    /\ ret \in Directions \cup {"None"}

====
